---- MODULE Spec2Model ----
(***************************************************************************)
(* Audio-File-Tagging-Tool: the tag-token codec, the consistency enforcer, *)
(* the comment writes of the SongTagging screen, the load of the           *)
(* vocabulary and the TagManager.                                          *)
(*                                                                         *)
(* Strings are sequences of one-character strings, so that startsWith,     *)
(* slice, split, trim and join are computed as the code computes them.     *)
(* A TagDef is a record [id, name, type, parent, amountRange]; a missing   *)
(* parent is "" (falsy in the code), a missing amountRange is <<>>, a      *)
(* present one is <<min, max>>.  A null amount is NoAmount.  An optional   *)
(* object (TagDef | null, TrackMeta | null) is <<>> or <<object>>.         *)
(***************************************************************************)
EXTENDS Integers, Sequences, FiniteSets, TLC

VARIABLES
    tags,               \* tagsFile.tags, the active vocabulary
    bank,               \* name of the active bank
    disk,               \* the comment stored in each audio file
    meta,               \* SongTagging's meta state: <<>> or <<[path, comment]>>
    confirmSwitchOpen,  \* the bank-switch prompt is open
    pendingAdd,         \* <<>> or <<[tag, amount]>>
    clearConfirmOpen,   \* the clear-tags prompt is open
    inflight,           \* writes issued by the handlers and not yet settled
    issued,             \* number of writeComment calls issued so far
    pc,                 \* position of the pure-function pipeline
    selected,           \* input selection of the pipeline
    enforced,           \* enforceParentAndMandatory(selected, tags)
    reenforced,         \* enforceParentAndMandatory(enforced, tags)
    encoded,            \* stringifyTagsForComment(selected)
    decoded,            \* parseCommentToTags(encoded, tags)
    token,              \* token handed to tokenToTagMatch / isRecognizedToken
    mainOk,             \* ensureAtLeastOneMain(selected, tags)
    version,            \* tagsFile.version
    raw,                \* the persisted tags file of the active bank
    error,              \* TagManager's error state: <<>> or <<message>>
    loadError,          \* the vocabulary load effect ended in a rejection
    walk,               \* the ancestor walk: the call of topoParents in progress
    passed,             \* the list handed to enforceParentAndMandatory, after the call
    bankFiles,          \* the persisted tags file of every bank: <<>> or <<tags>>
    banks,              \* App.banks: the bank names offered for selection
    reads               \* the readTagsFileBank calls that have not resolved yet

appVars == <<bank, disk, meta, confirmSwitchOpen, pendingAdd, clearConfirmOpen,
             inflight, issued>>
pureVars == <<pc, selected, enforced, reenforced, encoded, decoded, token, mainOk>>
mgrVars == <<version, raw, error, loadError>>
bankVars == <<bankFiles, banks, reads>>
otherVars == <<walk, passed, bankVars>>
vars == <<tags, appVars, pureVars, mgrVars, otherVars>>

----------------------------------------------------------------------------
(* Bounds *)

MaxTags == 3
MaxSel == 2
MaxAmount == 2
MaxAppTags == 2
MaxInFlight == 1
MaxWrites == 1
MaxRaceInFlight == 2
MaxRaceWrites == 2
MaxSaved == 2
MaxSeqWrites == 2
MaxReads == 3
MaxBankTags == 2

NoAmount == -1

----------------------------------------------------------------------------
(* String primitives *)

Digits == {"0", "1", "2", "3", "4", "5", "6", "7", "8", "9"}

DigitVal(c) ==
    CASE c = "0" -> 0 [] c = "1" -> 1 [] c = "2" -> 2 [] c = "3" -> 3
      [] c = "4" -> 4 [] c = "5" -> 5 [] c = "6" -> 6 [] c = "7" -> 7
      [] c = "8" -> 8 [] c = "9" -> 9

DigitChar(n) ==
    CASE n = 0 -> "0" [] n = 1 -> "1" [] n = 2 -> "2" [] n = 3 -> "3"
      [] n = 4 -> "4" [] n = 5 -> "5" [] n = 6 -> "6" [] n = 7 -> "7"
      [] n = 8 -> "8" [] n = 9 -> "9"

\* /^\d+$/.test(s)
IsDigits(s) == Len(s) > 0 /\ \A i \in 1..Len(s) : s[i] \in Digits

RECURSIVE parseInt(_)
parseInt(s) ==
    IF Len(s) = 0 THEN 0
    ELSE parseInt(SubSeq(s, 1, Len(s) - 1)) * 10 + DigitVal(s[Len(s)])

\* `${n}` for a non-negative integer
RECURSIVE numToStr(_)
numToStr(n) ==
    IF n < 10 THEN <<DigitChar(n)>>
    ELSE numToStr(n \div 10) \o <<DigitChar(n % 10)>>

startsWith(s, p) == Len(p) <= Len(s) /\ SubSeq(s, 1, Len(p)) = p

endsWith(s, p) == Len(p) <= Len(s) /\ SubSeq(s, Len(s) - Len(p) + 1, Len(s)) = p

slice(s, k) == SubSeq(s, k + 1, Len(s))

\* s.split(";")
RECURSIVE splitFrom(_, _, _)
splitFrom(s, i, piece) ==
    IF i > Len(s) THEN <<piece>>
    ELSE IF s[i] = ";" THEN <<piece>> \o splitFrom(s, i + 1, <<>>)
    ELSE splitFrom(s, i + 1, Append(piece, s[i]))

split(s) == splitFrom(s, 1, <<>>)

\* s.trim()
RECURSIVE trim(_)
trim(s) ==
    IF Len(s) = 0 THEN s
    ELSE IF s[1] = " " THEN trim(Tail(s))
    ELSE IF s[Len(s)] = " " THEN trim(SubSeq(s, 1, Len(s) - 1))
    ELSE s

\* toks.join(sep)
RECURSIVE join(_, _)
join(toks, sep) ==
    IF Len(toks) = 0 THEN <<>>
    ELSE IF Len(toks) = 1 THEN toks[1]
    ELSE toks[1] \o sep \o join(Tail(toks), sep)

\* concatenation of the strings of a list
RECURSIVE concat(_)
concat(toks) == IF Len(toks) = 0 THEN <<>> ELSE toks[1] \o concat(Tail(toks))

Range(s) == {s[i] : i \in 1..Len(s)}

----------------------------------------------------------------------------
(* lib/tags *)

\* all.find((t) => t.id === id), as an index (0: not found)
findIx(all, id) ==
    IF \E i \in 1..Len(all) : all[i].id = id
    THEN CHOOSE i \in 1..Len(all) :
             all[i].id = id /\ \A j \in 1..(i - 1) : all[j].id # id
    ELSE 0

\* acc is the Set of the code, kept in insertion order
RECURSIVE topoParents(_, _, _)
topoParents(all, id, acc) ==
    LET ix == findIx(all, id) IN
    IF ix = 0 THEN acc
    ELSE IF all[ix].parent # ""
         THEN topoParents(all, all[ix].parent,
                          IF all[ix].parent \in Range(acc) THEN acc
                          ELSE Append(acc, all[ix].parent))
         ELSE acc

RECURSIVE tokenToTagMatchFrom(_, _, _)
tokenToTagMatchFrom(tok, all, i) ==
    IF i > Len(all) THEN [tag |-> <<>>, amount |-> NoAmount]
    ELSE LET t == all[i] IN
         IF /\ t.amountRange # <<>>
            /\ startsWith(tok, t.name)
            /\ IsDigits(slice(tok, Len(t.name)))
         THEN [tag |-> <<t>>, amount |-> parseInt(slice(tok, Len(t.name)))]
         ELSE IF tok = t.name THEN [tag |-> <<t>>, amount |-> NoAmount]
         ELSE tokenToTagMatchFrom(tok, all, i + 1)

tokenToTagMatch(tok, all) == tokenToTagMatchFrom(tok, all, 1)

\* one item of stringifyTagsForComment
tokenOf(e) ==
    IF e.tag.amountRange # <<>>
    THEN e.tag.name \o numToStr(IF e.amount = NoAmount THEN 0 ELSE e.amount)
    ELSE e.tag.name

stringifyTagsForComment(list) ==
    join([i \in 1..Len(list) |-> tokenOf(list[i])], <<";">>)

splitTokens(comment) ==
    LET parts == split(comment) IN
    SelectSeq([i \in 1..Len(parts) |-> trim(parts[i])], LAMBDA s : s # <<>>)

RECURSIVE matchAll(_, _)
matchAll(toks, all) ==
    IF Len(toks) = 0 THEN <<>>
    ELSE LET m == tokenToTagMatch(toks[1], all) IN
         (IF m.tag # <<>> THEN <<[tag |-> m.tag[1], amount |-> m.amount]>>
          ELSE <<>>) \o matchAll(Tail(toks), all)

parseCommentToTags(comment, all) == matchAll(splitTokens(comment), all)

\* Map keyed by id: position of the first occurrence, value of the last
dedupeById(list) ==
    LET firsts == SelectSeq([i \in 1..Len(list) |-> i],
                     LAMBDA i : \A j \in 1..(i - 1) : list[j].tag.id # list[i].tag.id)
        lastOf(id) == CHOOSE i \in 1..Len(list) :
                          /\ list[i].tag.id = id
                          /\ \A j \in (i + 1)..Len(list) : list[j].tag.id # id
    IN  [k \in 1..Len(firsts) |-> list[lastOf(list[firsts[k]].tag.id)]]

\* an implied entry that never carries an amount
impliedNull(t) == [tag |-> t, amount |-> NoAmount]

implied(t) == [tag |-> t, amount |-> IF t.amountRange # <<>> THEN 0 ELSE NoAmount]

\* the first loop: ancestors of every selected entry that are not selected
RECURSIVE toAddParents(_, _, _)
toAddParents(list, all, selectedIds) ==
    IF Len(list) = 0 THEN <<>>
    ELSE SelectSeq(topoParents(all, list[1].tag.id, <<>>),
                   LAMBDA pid : pid \notin selectedIds)
         \o toAddParents(Tail(list), all, selectedIds)

\* the second loop: the entries pushed for the ancestors found in all
RECURSIVE parentEntries(_, _)
parentEntries(pids, all) ==
    IF Len(pids) = 0 THEN <<>>
    ELSE (IF findIx(all, pids[1]) # 0
          THEN <<implied(all[findIx(all, pids[1])])>> ELSE <<>>)
         \o parentEntries(Tail(pids), all)

\* the third loop: the entries pushed for the mandatory definitions
RECURSIVE mandatoryEntries(_, _)
mandatoryEntries(all, selectedIds) ==
    IF Len(all) = 0 THEN <<>>
    ELSE (IF all[1].type = "mandatory" /\ all[1].id \notin selectedIds
          THEN <<implied(all[1])>> ELSE <<>>)
         \o mandatoryEntries(Tail(all), selectedIds)

\* the array handed in, after the second and third loop have pushed into it
pushed(list, all) ==
    LET selectedIds == {list[i].tag.id : i \in 1..Len(list)}
        pids == toAddParents(list, all, selectedIds)
    IN  list \o parentEntries(pids, all) \o mandatoryEntries(all, selectedIds)

\* enforcement whose third loop is missing
enforceParentsOnly(list, all) ==
    LET selectedIds == {list[i].tag.id : i \in 1..Len(list)}
        pids == toAddParents(list, all, selectedIds)
    IN  dedupeById(list \o parentEntries(pids, all))

enforceParentAndMandatory(list, all) ==
    LET selectedIds == {list[i].tag.id : i \in 1..Len(list)}
        pids == toAddParents(list, all, selectedIds)
    IN  dedupeById(list \o parentEntries(pids, all)
                        \o mandatoryEntries(all, selectedIds))

\* the gate without the case of a vocabulary that has no main tag
ensureMainSelected(list, all) ==
    \E i \in 1..Len(list) : list[i].tag.type = "main"

ensureAtLeastOneMain(list, all) ==
    \/ \E i \in 1..Len(list) : list[i].tag.type = "main"
    \/ \A i \in 1..Len(all) : all[i].type # "main"

TagBPrefix == <<"T", "a", "g", "B", ":">>

isRecognizedToken(tok, defs) ==
    \/ startsWith(tok, TagBPrefix)
    \/ \E i \in 1..Len(defs) :
          LET t == defs[i] IN
          IF t.amountRange = <<>> THEN tok = t.name
          ELSE /\ startsWith(tok, t.name)
               /\ IsDigits(slice(tok, Len(t.name)))
               /\ LET v == parseInt(slice(tok, Len(t.name)))
                  IN  v >= t.amountRange[1] /\ v <= t.amountRange[2]

unknownTokensFromComment(comment, defs) ==
    SelectSeq(splitTokens(comment), LAMBDA t : ~isRecognizedToken(t, defs))

TAGS_SCHEMA_VERSION == 1

emptyTags == [version |-> TAGS_SCHEMA_VERSION, tags |-> <<>>]

\* The text of a tags file: kind "malformed" is text that is not JSON; the
\* other kinds are the JSON value the text stands for.  For an object,
\* tagsK and verK tell what its fields 'tags' and 'version' hold.
Json(kind, tagsK, tagsV, verK, verV) ==
    [kind |-> kind, tagsK |-> tagsK, tagsV |-> tagsV, verK |-> verK, verV |-> verV]

\* JSON.stringify(tf)
JSONstringify(tf) == Json("object", "array", tf.tags, "number", tf.version)

\* JSON.parse(text) throws a SyntaxError
JSONparseThrows(text) == text.kind = "malformed"

\* !input
falsy(input) == input.kind \in {"null", "zero", "emptystring", "false"}

\* Array.isArray(input.tags)
hasTagsArray(input) == input.kind = "object" /\ input.tagsK = "array"

coerceTagsFile(input) ==
    IF falsy(input) \/ ~hasTagsArray(input) THEN emptyTags
    ELSE [version |-> IF input.verK = "number" THEN input.verV
                      ELSE TAGS_SCHEMA_VERSION,
          tags |-> input.tagsV]

\* characters matched by \s that the inputs use
Whitespace == {" ", "\t"}

\* the message of the Error validateTagName throws, <<>> when it returns
validateTagName(name) ==
    IF name = <<>> THEN <<"Tag name required">>
    ELSE IF \E i \in 1..Len(name) : name[i] \in Whitespace
    THEN <<"No spaces allowed in tag names (use CamelCase or underscores)">>
    ELSE IF \E i \in 1..Len(name) : name[i] = ";"
    THEN <<"Semicolons are reserved as separators">>
    ELSE <<>>

toLowerCase(c) ==
    CASE c = "A" -> "a" [] c = "B" -> "b" [] OTHER -> c

LowerAlnum ==
    {"a", "b", "c", "d", "e", "f", "g", "h", "i", "j", "k", "l", "m", "n",
     "o", "p", "q", "r", "s", "t", "u", "v", "w", "x", "y", "z"} \cup Digits

\* .replace(/[^a-z0-9]+/g, "_"): a run of other characters becomes one "_"
RECURSIVE replaceRuns(_, _)
replaceRuns(s, inRun) ==
    IF Len(s) = 0 THEN <<>>
    ELSE IF s[1] \in LowerAlnum THEN <<s[1]>> \o replaceRuns(Tail(s), FALSE)
    ELSE (IF inRun THEN <<>> ELSE <<"_">>) \o replaceRuns(Tail(s), TRUE)

\* .replace(/^_+|_+$/g, "")
RECURSIVE stripUnderscores(_)
stripUnderscores(s) ==
    IF Len(s) = 0 THEN s
    ELSE IF s[1] = "_" THEN stripUnderscores(Tail(s))
    ELSE IF s[Len(s)] = "_" THEN stripUnderscores(SubSeq(s, 1, Len(s) - 1))
    ELSE s

\* a list of characters as one string
RECURSIVE toStr(_)
toStr(s) == IF Len(s) = 0 THEN "" ELSE s[1] \o toStr(Tail(s))

idFromName(name) ==
    toStr(stripUnderscores(
        replaceRuns([i \in 1..Len(name) |-> toLowerCase(name[i])], FALSE)))

----------------------------------------------------------------------------
(* Inputs: vocabularies and selections *)

Paths == {"f1"}

TagDef(id, name, type, parent, amountRange) ==
    [id |-> id, name |-> name, type |-> type, parent |-> parent,
     amountRange |-> amountRange]

\* Definitions a TagManager user can save: names pass validateTagName.
\* energy -> lead -> vocal is a parent chain; reviewed is a mandatory
\* definition with a parent; e1 has a parent id that was deleted; the
\* name of e1 is the name of energy followed by a digit; the name of
\* tagbx starts with the prefix of the bank token.
DefPool ==
    { TagDef("vocal",    <<"v">>,      "optional",  "",      <<>>),
      TagDef("lead",     <<"l">>,      "main",      "vocal", <<>>),
      TagDef("reviewed", <<"r">>,      "mandatory", "vocal", <<>>),
      TagDef("energy",   <<"e">>,      "optional",  "lead",  <<0, 1>>),
      TagDef("e1",       <<"e", "1">>, "main",      "gone",  <<>>),
      TagDef("score",    <<"s">>,      "mandatory", "",      <<1, 2>>),
      TagDef("tagb_x",   <<"T", "a", "g", "B", ":", "x">>, "optional", "", <<>>) }

\* ordered lists of at most n definitions with pairwise distinct ids
RECURSIVE VocabsUpTo(_)
VocabsUpTo(n) ==
    IF n = 0 THEN {<<>>}
    ELSE LET shorter == VocabsUpTo(n - 1) IN
         shorter \cup
         { Append(v, d) : v \in {w \in shorter : Len(w) = n - 1},
                          d \in DefPool }

DistinctIds(all) ==
    \A i, j \in 1..Len(all) : all[i].id = all[j].id => i = j

Vocabs == {v \in VocabsUpTo(MaxTags) : Len(v) > 0 /\ DistinctIds(v)}

AmountsOf(t) ==
    IF t.amountRange # <<>> THEN {NoAmount} \cup (0..MaxAmount) ELSE {NoAmount}

Entries(all) ==
    UNION { {[tag |-> all[i], amount |-> a] : a \in AmountsOf(all[i])} :
            i \in 1..Len(all) }

RECURSIVE SeqsUpTo(_, _)
SeqsUpTo(S, n) ==
    IF n = 0 THEN {<<>>}
    ELSE LET shorter == SeqsUpTo(S, n - 1) IN
         shorter \cup
         { Append(q, x) : q \in {w \in shorter : Len(w) = n - 1}, x \in S }

Selections(all) == SeqsUpTo(Entries(all), MaxSel)

\* tokens handed to the matchers: every encoding of an entry, bare names,
\* out-of-range and multi-digit amounts, a bank token, a foreign token
TokenInputs(all) ==
    { tokenOf(e) : e \in Entries(all) }
    \cup { all[i].name : i \in 1..Len(all) }
    \cup { all[i].name \o numToStr(n) : i \in 1..Len(all), n \in {0, 5, 12} }
    \cup { TagBPrefix \o <<"j">>, <<"m", "o", "o", "d">> }

----------------------------------------------------------------------------
(* The pure functions applied to drawn inputs *)

\* no ancestor walk is in progress
WalkIdle == [state |-> "idle", id |-> "", start |-> "", acc |-> <<>>]

Default == <<"d", "e", "f", "a", "u", "l", "t">>

BankNames == {Default, <<"a">>, <<"b">>}

BanksIdle ==
    /\ bankFiles = [n \in BankNames |-> IF n = Default THEN << <<>> >> ELSE <<>>]
    /\ banks = {Default}
    /\ reads = <<>>

OtherIdle == walk = WalkIdle /\ passed = <<>> /\ BanksIdle

\* no vocabulary file is being loaded or edited
MgrIdle ==
    /\ version = TAGS_SCHEMA_VERSION
    /\ raw = JSONstringify(emptyTags)
    /\ error = <<>>
    /\ loadError = FALSE

AppIdle ==
    /\ bank = <<"r">>
    /\ disk = [p \in Paths |-> <<>>]
    /\ meta = <<>>
    /\ confirmSwitchOpen = FALSE
    /\ pendingAdd = <<>>
    /\ clearConfirmOpen = FALSE
    /\ inflight = <<>>
    /\ issued = 0

PureInit ==
    /\ tags \in Vocabs
    /\ selected \in Selections(tags)
    /\ pc = "start"
    /\ enforced = <<>>
    /\ reenforced = <<>>
    /\ encoded = <<>>
    /\ decoded = <<>>
    /\ token = <<>>
    /\ mainOk = FALSE
    /\ OtherIdle
    /\ AppIdle
    /\ MgrIdle

Enforce ==
    /\ pc = "start"
    /\ enforced' = enforceParentAndMandatory(selected, tags)
    /\ passed' = pushed(selected, tags)
    /\ pc' = "enforced"
    /\ UNCHANGED <<tags, appVars, walk, bankVars, mgrVars, selected, reenforced, encoded, decoded, token, mainOk>>

EnforceAgain ==
    /\ pc = "enforced"
    /\ reenforced' = enforceParentAndMandatory(enforced, tags)
    /\ passed' = pushed(enforced, tags)
    /\ pc' = "reenforced"
    /\ UNCHANGED <<tags, appVars, walk, bankVars, mgrVars, selected, enforced, encoded, decoded, token, mainOk>>

Stringify ==
    /\ pc = "start"
    /\ encoded' = stringifyTagsForComment(selected)
    /\ pc' = "encoded"
    /\ UNCHANGED <<tags, appVars, otherVars, mgrVars, selected, enforced, reenforced, decoded, token, mainOk>>

Parse ==
    /\ pc = "encoded"
    /\ decoded' = parseCommentToTags(encoded, tags)
    /\ pc' = "decoded"
    /\ UNCHANGED <<tags, appVars, otherVars, mgrVars, selected, enforced, reenforced, encoded, token, mainOk>>

\* one token is drawn per vocabulary (the selection plays no part)
Match ==
    /\ pc = "start"
    /\ selected = <<>>
    /\ \E tok \in TokenInputs(tags) : token' = tok
    /\ pc' = "matched"
    /\ UNCHANGED <<tags, appVars, otherVars, mgrVars, selected, enforced, reenforced, encoded, decoded, mainOk>>

Gate ==
    /\ pc = "start"
    /\ mainOk' = ensureAtLeastOneMain(selected, tags)
    /\ pc' = "gated"
    /\ UNCHANGED <<tags, appVars, otherVars, mgrVars, selected, enforced, reenforced, encoded,
                   decoded, token>>

PureNext == Enforce \/ EnforceAgain \/ Stringify \/ Parse \/ Match \/ Gate

PureSpec == PureInit /\ [][PureNext]_vars

----------------------------------------------------------------------------
(* Claims about the pure functions, checked under PureSpec *)

Ids(list) == {list[i].tag.id : i \in 1..Len(list)}

\* a selection as a set of (id, amount) pairs
AsSet(list) == {<<list[i].tag.id, list[i].amount>> : i \in 1..Len(list)}

NoDupIds(list) ==
    \A i, j \in 1..Len(list) : list[i].tag.id = list[j].tag.id => i = j

\* C1: every entry of enforce(S, V) whose definition has a parent set has
\* that parent in the result (and so, entry by entry, every ancestor).
AncestorClosure ==
    pc \in {"enforced", "reenforced"} =>
        \A i \in 1..Len(enforced) :
            enforced[i].tag.parent # "" => enforced[i].tag.parent \in Ids(enforced)

\* C2: a second enforcement pass returns the same set of (id, amount) pairs.
IdempotentEnforcement ==
    pc = "reenforced" => AsSet(reenforced) = AsSet(enforced)

\* C3: decoding the encoding of a selection without duplicate ids gives the
\* selection back, as a set of (id, amount) pairs.
RoundTrip ==
    (pc = "decoded" /\ NoDupIds(selected)) => AsSet(decoded) = AsSet(selected)

\* C4: every mandatory definition of V is in enforce(S, V); one that was not
\* selected has amount 0 if it has an amount range and null otherwise.
MandatoryClosure ==
    pc \in {"enforced", "reenforced"} =>
        \A i \in 1..Len(tags) :
            tags[i].type = "mandatory" =>
                \E j \in 1..Len(enforced) :
                    /\ enforced[j].tag = tags[i]
                    /\ tags[i].id \notin Ids(selected) =>
                           enforced[j].amount =
                               IF tags[i].amountRange # <<>> THEN 0 ELSE NoAmount

\* enforce has added a mandatory definition with an amount range and one
\* without to a non-empty selection
MandatoryAdded ==
    /\ pc = "enforced"
    /\ selected # <<>>
    /\ \E i, k \in 1..Len(tags) :
          /\ tags[i].type = "mandatory" /\ tags[k].type = "mandatory"
          /\ tags[i].amountRange # <<>> /\ tags[k].amountRange = <<>>
          /\ {tags[i].id, tags[k].id} \cap Ids(selected) = {}
          /\ {tags[i].id, tags[k].id} \subseteq Ids(enforced)

\* C8: a token that does not start with the bank prefix is recognized
\* exactly when tokenToTagMatch returns a definition for it.
SameMatching ==
    (pc = "matched" /\ ~startsWith(token, TagBPrefix)) =>
        (isRecognizedToken(token, tags) <=> tokenToTagMatch(token, tags).tag # <<>>)

\* C21: ensureAtLeastOneMain(L, V) is true exactly when L has an entry
\* of a main definition or V has no main definition; for the empty
\* selection it is false when V has a main definition and true otherwise.
MainGate ==
    pc = "gated" =>
        LET mainsInL == {i \in 1..Len(selected) : selected[i].tag.type = "main"}
            mainsInV == {i \in 1..Len(tags) : tags[i].type = "main"}
        IN  /\ mainOk = (mainsInL # {} \/ mainsInV = {})
            /\ selected = <<>> => (mainOk = (mainsInV = {}))

\* the gate has refused the empty selection under a vocabulary with a
\* main definition
MainGateCase ==
    /\ pc = "gated" /\ selected = <<>> /\ ~mainOk
    /\ \E i \in 1..Len(tags) : tags[i].type = "main"

\* the ids reached from the ids of S by following parent links in V, in at
\* most n steps
RECURSIVE AncestorsWithin(_, _, _)
AncestorsWithin(S, V, n) ==
    IF n = 0 THEN {}
    ELSE LET up == {V[i].parent : i \in {k \in 1..Len(V) : V[k].id \in S /\ V[k].parent # ""}}
         IN  up \cup AncestorsWithin(up, V, n - 1)

DefIds(V) == {V[i].id : i \in 1..Len(V)}

\* C22: the id set of enforce(S, V) is ids(S) united with the transitive
\* ancestors of S that exist in V and with the mandatory definitions of V;
\* an entry of S keeps an amount it has in S, and an added entry has amount
\* 0 if its definition has an amount range and null otherwise.
ExactlyImplied ==
    pc = "enforced" =>
        LET anc == AncestorsWithin(Ids(selected), tags, Len(tags)) \cap DefIds(tags)
            man == {tags[i].id : i \in {k \in 1..Len(tags) : tags[k].type = "mandatory"}}
        IN  /\ Ids(enforced) = Ids(selected) \cup anc \cup man
            /\ NoDupIds(enforced)
            /\ \A i \in 1..Len(enforced) :
                   IF enforced[i].tag.id \in Ids(selected)
                   THEN <<enforced[i].tag.id, enforced[i].amount>> \in AsSet(selected)
                   ELSE enforced[i].amount =
                            (IF enforced[i].tag.amountRange # <<>> THEN 0 ELSE NoAmount)
            /\ NoDupIds(selected) => AsSet(selected) \subseteq AsSet(enforced)

\* a selection of one entry has gained an ancestor and a mandatory entry,
\* one of them with an amount range
ExactlyImpliedCase ==
    /\ pc = "enforced" /\ Len(selected) = 1 /\ Len(enforced) = 3
    /\ selected[1].tag.parent \in Ids(enforced)
    /\ \E i \in 1..Len(enforced) :
           /\ enforced[i].tag.type = "mandatory"
           /\ enforced[i].tag.amountRange # <<>>
           /\ enforced[i].amount = 0

\* C24: enforceParentAndMandatory leaves the list passed to it unchanged
\* (same entries, same length) and returns its result as a new value.
ArgumentUnchanged ==
    pc = "enforced" => passed = selected

----------------------------------------------------------------------------
(* SongTagging: the comment writes of App.tsx *)

Banks == {<<"r">>}

\* comments found in files: "", "l;v;TagB:r;", "x;y;TagB:j;", "e5; y ;e"
\* and "r;e1;s0;TagB:j"
InitComments ==
    { <<>>,
      <<"l", ";", "v", ";", "T", "a", "g", "B", ":", "r", ";">>,
      <<"x", ";", "y", ";", "T", "a", "g", "B", ":", "j", ";">>,
      <<"e", "5", ";", " ", "y", " ", ";", "e">>,
      <<"r", ";", "e", "1", ";", "s", "0", ";", "T", "a", "g", "B", ":", "j">> }

AppVocabs == {v \in Vocabs : Len(v) <= MaxAppTags}

PureIdle ==
    /\ pc = "app"
    /\ selected = <<>>
    /\ enforced = <<>>
    /\ reenforced = <<>>
    /\ encoded = <<>>
    /\ decoded = <<>>
    /\ token = <<>>
    /\ mainOk = FALSE
    /\ OtherIdle

Init ==
    /\ tags \in AppVocabs
    /\ bank \in Banks
    /\ disk \in [Paths -> InitComments]
    /\ meta = <<>>
    /\ confirmSwitchOpen = FALSE
    /\ pendingAdd = <<>>
    /\ clearConfirmOpen = FALSE
    /\ inflight = <<>>
    /\ issued = 0
    /\ PureIdle
    /\ MgrIdle

\* The handlers take no lock: the number of calls issued and in flight is
\* capped per specification (pc tells the specification apart).
WriteCap ==
    IF pc = "race" THEN MaxRaceWrites
    ELSE IF pc = "seq" THEN MaxSeqWrites
    ELSE MaxWrites

FlightCap == IF pc = "race" THEN MaxRaceInFlight ELSE MaxInFlight

metaComment == IF meta = <<>> THEN <<>> ELSE meta[1].comment

tokenList == parseCommentToTags(metaComment, tags)

getBankFromComment(comment) ==
    LET toks == SelectSeq(splitTokens(comment), LAMBDA t : startsWith(t, TagBPrefix))
    IN  IF Len(toks) = 0 THEN <<>> ELSE <<slice(toks[1], Len(TagBPrefix))>>

\* fileBank is null or "" (both falsy) when getBankFromComment is <<>> or <<"">>
bankDiffAndHasTags ==
    LET fileBank == getBankFromComment(metaComment)
        tokensExcludingBank ==
            SelectSeq(splitTokens(metaComment), LAMBDA t : ~startsWith(t, TagBPrefix))
    IN  /\ fileBank # <<>>
        /\ fileBank[1] # <<>>
        /\ fileBank[1] # bank
        /\ Len(tokensExcludingBank) > 0

\* the first file is read and becomes the current track
loadTrackForEntry(p) ==
    /\ meta = <<>>
    /\ meta' = <<[path |-> p, comment |-> disk[p]]>>
    /\ UNCHANGED <<tags, bank, disk, confirmSwitchOpen, pendingAdd,
                   clearConfirmOpen, inflight, issued, pureVars, mgrVars, otherVars>>

\* the unknown tokens appended as one run, without a delimiter after each
withUnknownsMerged(str, comment, all, removeUnknowns, keepUnknowns) ==
    IF keepUnknowns /\ ~removeUnknowns
    THEN LET unknown == unknownTokensFromComment(comment, all) IN
         IF Len(unknown) > 0
         THEN (IF str # <<>> /\ ~endsWith(str, <<";">>) THEN str \o <<";">> ELSE str)
              \o concat(unknown) \o <<";">>
         ELSE str
    ELSE str

\* str after the unknown tokens of the file's comment are kept or dropped
withUnknowns(str, comment, all, removeUnknowns, keepUnknowns) ==
    IF keepUnknowns /\ ~removeUnknowns
    THEN LET unknown == unknownTokensFromComment(comment, all) IN
         IF Len(unknown) > 0
         THEN (IF str # <<>> /\ ~endsWith(str, <<";">>) THEN str \o <<";">> ELSE str)
              \o concat([i \in 1..Len(unknown) |-> unknown[i] \o <<";">>])
         ELSE str
    ELSE str

\* str with every TagB token replaced by one token for the active bank
withBank(str, bk) ==
    LET toks == SelectSeq(splitTokens(str), LAMBDA t : ~startsWith(t, TagBPrefix))
    IN  join(Append(toks, TagBPrefix \o bk), <<";">>) \o <<";">>

\* the comment persistTagsWithBankDecision writes for the selection final
commentFor(final, comment, all, bk, removeUnknowns, keepUnknowns) ==
    withBank(withUnknowns(stringifyTagsForComment(final), comment, all,
                          removeUnknowns, keepUnknowns), bk)

\* persistTagsWithBankDecision without the check for a main tag
persistTagsUnchecked(chosen, removeUnknowns, keepUnknowns, afterwards) ==
    IF meta = <<>>
    THEN /\ pendingAdd' = IF afterwards THEN <<>> ELSE pendingAdd
         /\ UNCHANGED <<inflight, issued>>
    ELSE LET final == enforceParentAndMandatory(dedupeById(chosen), tags)
             str == commentFor(final, meta[1].comment, tags, bank,
                               removeUnknowns, keepUnknowns) IN
         /\ issued < WriteCap
         /\ Len(inflight) < FlightCap
         /\ issued' = issued + 1
         /\ inflight' = Append(inflight,
                [kind |-> "persist", snap |-> meta[1], str |-> str,
                 chosen |-> chosen,
                 final |-> final, keep |-> keepUnknowns /\ ~removeUnknowns,
                 bank |-> bank, at |-> "writeComment",
                 afterwards |-> afterwards])
         /\ UNCHANGED pendingAdd

\* persistTagsWithBankDecision up to the call of writeComment; afterwards
\* says whether the caller sets pendingAdd to null once the call returns.
\* The write in flight keeps the meta of the render the handler ran in
\* (snap), the list handed in (chosen), the enforced selection and the
\* policy.
persistTagsWithBankDecision(chosen, removeUnknowns, keepUnknowns, afterwards) ==
    IF meta = <<>>
    THEN /\ pendingAdd' = IF afterwards THEN <<>> ELSE pendingAdd
         /\ UNCHANGED <<inflight, issued>>
    ELSE LET final == enforceParentAndMandatory(dedupeById(chosen), tags) IN
         IF ~ensureAtLeastOneMain(final, tags)
         THEN /\ pendingAdd' = IF afterwards THEN <<>> ELSE pendingAdd
              /\ UNCHANGED <<inflight, issued>>
         ELSE LET str == commentFor(final, meta[1].comment, tags, bank,
                                    removeUnknowns, keepUnknowns) IN
              /\ issued < WriteCap
              /\ Len(inflight) < FlightCap
              /\ issued' = issued + 1
              /\ inflight' = Append(inflight,
                     [kind |-> "persist", snap |-> meta[1], str |-> str,
                      chosen |-> chosen,
                      final |-> final, keep |-> keepUnknowns /\ ~removeUnknowns,
                      bank |-> bank, at |-> "writeComment",
                      afterwards |-> afterwards])
              /\ UNCHANGED pendingAdd

\* toggleTag without the rejection of the removal of a mandatory tag
toggleTagAnyType(t) ==
    /\ meta # <<>>
    /\ LET list == tokenList
           has == \E i \in 1..Len(list) : list[i].tag.id = t.id
       IN  IF ~has /\ bankDiffAndHasTags
           THEN /\ pendingAdd' = <<implied(t)>>
                /\ confirmSwitchOpen' = TRUE
                /\ UNCHANGED <<inflight, issued>>
           ELSE /\ persistTagsWithBankDecision(
                       IF has THEN SelectSeq(list, LAMBDA x : x.tag.id # t.id)
                       ELSE Append(list, implied(t)),
                       FALSE, TRUE, FALSE)
                /\ UNCHANGED confirmSwitchOpen
    /\ UNCHANGED <<tags, bank, disk, meta, clearConfirmOpen, pureVars, mgrVars, otherVars>>

toggleTag(t) ==
    /\ meta # <<>>
    /\ LET list == tokenList
           has == \E i \in 1..Len(list) : list[i].tag.id = t.id
       IN  IF t.type = "mandatory" /\ has
           THEN UNCHANGED <<confirmSwitchOpen, pendingAdd, inflight, issued>>
           ELSE IF ~has /\ bankDiffAndHasTags
           THEN /\ pendingAdd' = <<implied(t)>>
                /\ confirmSwitchOpen' = TRUE
                /\ UNCHANGED <<inflight, issued>>
           ELSE /\ persistTagsWithBankDecision(
                       IF has THEN SelectSeq(list, LAMBDA x : x.tag.id # t.id)
                       ELSE Append(list, implied(t)),
                       FALSE, TRUE, FALSE)
                /\ UNCHANGED confirmSwitchOpen
    /\ UNCHANGED <<tags, bank, disk, meta, clearConfirmOpen, pureVars, mgrVars, otherVars>>

setAmount(t, n) ==
    /\ t.amountRange # <<>>
    /\ LET list == tokenList
           adding == \A i \in 1..Len(list) : list[i].tag.id # t.id
           ix == CHOOSE i \in 1..Len(list) :
                     list[i].tag.id = t.id /\ \A j \in 1..(i - 1) : list[j].tag.id # t.id
       IN  IF adding /\ bankDiffAndHasTags
           THEN /\ pendingAdd' = <<[tag |-> t, amount |-> n]>>
                /\ confirmSwitchOpen' = TRUE
                /\ UNCHANGED <<inflight, issued>>
           ELSE /\ persistTagsWithBankDecision(
                       IF adding THEN Append(list, [tag |-> t, amount |-> n])
                       ELSE [list EXCEPT ![ix] = [tag |-> t, amount |-> n]],
                       FALSE, TRUE, FALSE)
                /\ UNCHANGED confirmSwitchOpen
    /\ UNCHANGED <<tags, bank, disk, meta, clearConfirmOpen, pureVars, mgrVars, otherVars>>

pendingList ==
    LET list == tokenList
        has == \E i \in 1..Len(list) : list[i].tag.id = pendingAdd[1].tag.id
    IN  IF has THEN list ELSE Append(list, pendingAdd[1])

onCancel ==
    /\ confirmSwitchOpen /\ pendingAdd # <<>>
    /\ confirmSwitchOpen' = FALSE
    /\ pendingAdd' = <<>>
    /\ UNCHANGED <<tags, bank, disk, meta, clearConfirmOpen, inflight, issued, pureVars, mgrVars, otherVars>>

onSwitchKeepUnknowns ==
    /\ confirmSwitchOpen /\ pendingAdd # <<>>
    /\ confirmSwitchOpen' = FALSE
    /\ persistTagsWithBankDecision(pendingList, FALSE, TRUE, TRUE)
    /\ UNCHANGED <<tags, bank, disk, meta, clearConfirmOpen, pureVars, mgrVars, otherVars>>

onSwitchRemoveUnknowns ==
    /\ confirmSwitchOpen /\ pendingAdd # <<>>
    /\ confirmSwitchOpen' = FALSE
    /\ persistTagsWithBankDecision(pendingList, TRUE, FALSE, TRUE)
    /\ UNCHANGED <<tags, bank, disk, meta, clearConfirmOpen, pureVars, mgrVars, otherVars>>

\* the Clear Tags button, enabled when the comment is not blank
openClearConfirm ==
    /\ meta # <<>> /\ trim(meta[1].comment) # <<>>
    /\ ~clearConfirmOpen
    /\ clearConfirmOpen' = TRUE
    /\ UNCHANGED <<tags, bank, disk, meta, confirmSwitchOpen, pendingAdd,
                   inflight, issued, pureVars, mgrVars, otherVars>>

cancelClearConfirm ==
    /\ clearConfirmOpen
    /\ clearConfirmOpen' = FALSE
    /\ UNCHANGED <<tags, bank, disk, meta, confirmSwitchOpen, pendingAdd,
                   inflight, issued, pureVars, mgrVars, otherVars>>

\* ClearTagsModal's onConfirm: the prompt closes and doClearTags runs
doClearTags ==
    /\ clearConfirmOpen
    /\ clearConfirmOpen' = FALSE
    /\ IF meta = <<>>
       THEN UNCHANGED <<inflight, issued>>
       ELSE /\ issued < WriteCap
            /\ Len(inflight) < FlightCap
            /\ issued' = issued + 1
            /\ inflight' = Append(inflight,
                   [kind |-> "clear", snap |-> meta[1], str |-> <<>>,
                    chosen |-> <<>>, final |-> <<>>, keep |-> FALSE, bank |-> bank,
                    at |-> "writeComment", afterwards |-> FALSE])
    /\ UNCHANGED <<tags, bank, disk, meta, confirmSwitchOpen, pendingAdd, pureVars, mgrVars, otherVars>>

Remove(q, i) == SubSeq(q, 1, i - 1) \o SubSeq(q, i + 1, Len(q))

\* the backend stores the comment; the call of writeComment resolves
writeCommentOk(i) ==
    /\ inflight[i].at = "writeComment"
    /\ disk' = [disk EXCEPT ![inflight[i].snap.path] = inflight[i].str]
    /\ inflight' = [inflight EXCEPT ![i].at = "logEvent"]
    /\ UNCHANGED <<tags, bank, meta, confirmSwitchOpen, pendingAdd,
                   clearConfirmOpen, issued, pureVars, mgrVars, otherVars>>

\* writeComment or logEvent rejects: the catch block alerts
callFails(i) ==
    /\ inflight' = Remove(inflight, i)
    /\ pendingAdd' = IF inflight[i].afterwards THEN <<>> ELSE pendingAdd
    /\ UNCHANGED <<tags, bank, disk, meta, confirmSwitchOpen,
                   clearConfirmOpen, issued, pureVars, mgrVars, otherVars>>

\* setMeta({ ...meta, comment: str }) before the calls have resolved
setMetaEarly(i) ==
    /\ meta' = <<[inflight[i].snap EXCEPT !.comment = inflight[i].str]>>
    /\ inflight' = Remove(inflight, i)
    /\ pendingAdd' = IF inflight[i].afterwards THEN <<>> ELSE pendingAdd
    /\ UNCHANGED <<tags, bank, disk, confirmSwitchOpen, clearConfirmOpen,
                   issued, pureVars, mgrVars, otherVars>>

\* logEvent resolves: setMeta({ ...meta, comment: str }) with the meta of
\* the render in which the handler ran
logEventOk(i) ==
    /\ inflight[i].at = "logEvent"
    /\ meta' = <<[inflight[i].snap EXCEPT !.comment = inflight[i].str]>>
    /\ inflight' = Remove(inflight, i)
    /\ pendingAdd' = IF inflight[i].afterwards THEN <<>> ELSE pendingAdd
    /\ UNCHANGED <<tags, bank, disk, confirmSwitchOpen, clearConfirmOpen,
                   issued, pureVars, mgrVars, otherVars>>

Next ==
    \/ \E p \in Paths : loadTrackForEntry(p)
    \/ \E i \in 1..Len(tags) : toggleTag(tags[i])
    \/ \E i \in 1..Len(tags), n \in 0..MaxAmount : setAmount(tags[i], n)
    \/ onCancel
    \/ onSwitchKeepUnknowns
    \/ onSwitchRemoveUnknowns
    \/ openClearConfirm
    \/ cancelClearConfirm
    \/ doClearTags
    \/ \E i \in 1..Len(inflight) : writeCommentOk(i)
    \/ \E i \in 1..Len(inflight) : callFails(i)
    \/ \E i \in 1..Len(inflight) : logEventOk(i)

Spec == Init /\ [][Next]_vars

----------------------------------------------------------------------------
(* The same handlers with calls that overlap: a handler may run while the  *)
(* calls of an earlier one are still in flight.                            *)

RaceVocabs ==
    { << TagDef("vocal",  <<"v">>, "optional", "",     <<>>),
         TagDef("energy", <<"e">>, "optional", "lead", <<0, 1>>) >> }

\* "v;q;TagB:r;" and "x;y;TagB:j;"
RaceComments ==
    { <<"v", ";", "q", ";", "T", "a", "g", "B", ":", "r", ";">>,
      <<"x", ";", "y", ";", "T", "a", "g", "B", ":", "j", ";">> }

RaceInit ==
    /\ tags \in RaceVocabs
    /\ bank \in Banks
    /\ disk \in [Paths -> RaceComments]
    /\ meta = <<>>
    /\ confirmSwitchOpen = FALSE
    /\ pendingAdd = <<>>
    /\ clearConfirmOpen = FALSE
    /\ inflight = <<>>
    /\ issued = 0
    /\ pc = "race"
    /\ selected = <<>>
    /\ enforced = <<>>
    /\ reenforced = <<>>
    /\ encoded = <<>>
    /\ decoded = <<>>
    /\ token = <<>>
    /\ mainOk = FALSE
    /\ OtherIdle
    /\ MgrIdle

RaceSpec == RaceInit /\ [][Next]_vars

----------------------------------------------------------------------------
(* The vocabulary: the load effect of App and the TagManager *)

\* vocabularies a tags file may hold
SavedTagLists ==
    { <<>>,
      << TagDef("vocal", <<"v">>, "optional", "", <<>>) >>,
      << TagDef("vocal", <<"v">>, "optional", "", <<>>),
         TagDef("lead",  <<"l">>, "main", "vocal", <<>>) >> }

\* texts read_tags_file_bank may return
RawFiles ==
    { Json(k, "absent", <<>>, "absent", 0) :
        k \in {"malformed", "null", "zero", "number", "emptystring", "string",
               "false", "array"} }
    \cup { Json("object", tk, <<>>, vk, 0) :
             tk \in {"absent", "null", "string"}, vk \in {"absent", "string"} }
    \cup { Json("object", tk, <<>>, "number", v) :
             tk \in {"absent", "null", "string"}, v \in {1, 2} }
    \cup { Json("object", "array", l, vk, 0) :
             l \in SavedTagLists, vk \in {"absent", "null", "string"} }
    \cup { Json("object", "array", l, "number", v) :
             l \in SavedTagLists, v \in {1, 2} }

\* names typed into the form: "", "a b", "a<TAB>b", "a;b", "a_b-2", "v", "A"
NameInputs ==
    { <<>>, <<"a", " ", "b">>, <<"a", "\t", "b">>, <<"a", ";", "b">>,
      <<"a", "_", "b", "-", "2">>, <<"v">>, <<"A">> }

\* the form of the TagManager; editing is <<>> or <<id>> of the definition
\* whose Edit button filled the form
Forms ==
    [name : NameInputs, type : {"optional"}, hasAmount : {FALSE}]

VocabInit ==
    /\ tags \in {<<>>, << TagDef("energy", <<"e">>, "optional", "", <<0, 1>>) >>}
    /\ version = TAGS_SCHEMA_VERSION
    /\ raw \in RawFiles
    /\ error = <<>>
    /\ loadError = FALSE
    /\ AppIdle
    /\ pc = "vocab"
    /\ selected = <<>>
    /\ enforced = <<>>
    /\ reenforced = <<>>
    /\ encoded = <<>>
    /\ decoded = <<>>
    /\ token = <<>>
    /\ mainOk = FALSE
    /\ OtherIdle

\* the effect that loads the tags of the bank:
\* setTagsFile(coerceTagsFile(JSON.parse(raw))) inside an async function
\* without a catch
loadTagsFile ==
    /\ pc = "vocab"
    /\ pc' = "loaded"
    /\ IF JSONparseThrows(raw)
       THEN /\ loadError' = TRUE
            /\ UNCHANGED <<tags, version>>
       ELSE /\ tags' = coerceTagsFile(raw).tags
            /\ version' = coerceTagsFile(raw).version
            /\ UNCHANGED loadError
    /\ UNCHANGED <<appVars, otherVars, raw, error, selected, enforced, reenforced,
                   encoded, decoded, token, mainOk>>

\* setTags of the TagManager: setTagsFile(tf), then the file is written
setTags(next) ==
    /\ tags' = next
    /\ raw' = JSONstringify([version |-> version, tags |-> next])

\* save without the test for whitespace
saveSpaced(form, editing, parent) ==
    /\ pc = "loaded"
    /\ LET msg == IF form.name = <<>> THEN <<"Tag name required">>
                  ELSE IF \E i \in 1..Len(form.name) : form.name[i] = ";"
                  THEN <<"Semicolons are reserved as separators">>
                  ELSE <<>>
           id == IF editing # <<>> THEN editing[1] ELSE idFromName(form.name)
           def == TagDef(id, form.name, form.type, parent,
                         IF form.hasAmount THEN <<0, MaxAmount>> ELSE <<>>)
           ix == findIx(tags, id)
       IN  IF msg # <<>>
           THEN /\ error' = msg
                /\ UNCHANGED <<tags, raw>>
           ELSE /\ ix = 0 => Len(tags) < MaxSaved
                /\ setTags(IF ix # 0 THEN [tags EXCEPT ![ix] = def]
                           ELSE Append(tags, def))
                /\ error' = <<>>
    /\ UNCHANGED <<appVars, otherVars, pureVars, version, loadError>>

\* TagManager.save for the form as typed
save(form, editing, parent) ==
    /\ pc = "loaded"
    /\ LET msg == validateTagName(form.name)
           id == IF editing # <<>> THEN editing[1] ELSE idFromName(form.name)
           def == TagDef(id, form.name, form.type, parent,
                         IF form.hasAmount THEN <<0, MaxAmount>> ELSE <<>>)
           ix == findIx(tags, id)
       IN  IF msg # <<>>
           THEN /\ error' = msg
                /\ UNCHANGED <<tags, raw>>
           ELSE /\ ix = 0 => Len(tags) < MaxSaved
                /\ setTags(IF ix # 0 THEN [tags EXCEPT ![ix] = def]
                           ELSE Append(tags, def))
                /\ error' = <<>>
    /\ UNCHANGED <<appVars, otherVars, pureVars, version, loadError>>

\* TagManager.del
del(id) ==
    /\ pc = "loaded"
    /\ setTags(SelectSeq(tags, LAMBDA t : t.id # id))
    /\ UNCHANGED <<appVars, otherVars, pureVars, version, error, loadError>>

TagIds == {tags[i].id : i \in 1..Len(tags)}

VocabNext ==
    \/ loadTagsFile
    \/ \E form \in Forms, editing \in {<<>>} \cup {<<id>> : id \in TagIds},
          parent \in {""} : save(form, editing, parent)
    \/ \E id \in TagIds : del(id)

VocabSpec == VocabInit /\ [][VocabNext]_vars

----------------------------------------------------------------------------
(* The same handlers with writes that follow one another: the next edit    *)
(* starts once the calls of the earlier one have resolved.                 *)

\* "e5;q", "e1" and "x;TagB:j;"
SeqComments ==
    { <<"e", "5", ";", "q">>, <<"e", "1">>,
      <<"x", ";", "T", "a", "g", "B", ":", "j", ";">> }

SeqInit ==
    /\ tags \in RaceVocabs
    /\ bank \in Banks
    /\ disk \in [Paths -> SeqComments]
    /\ meta = <<>>
    /\ confirmSwitchOpen = FALSE
    /\ pendingAdd = <<>>
    /\ clearConfirmOpen = FALSE
    /\ inflight = <<>>
    /\ issued = 0
    /\ pc = "seq"
    /\ selected = <<>>
    /\ enforced = <<>>
    /\ reenforced = <<>>
    /\ encoded = <<>>
    /\ decoded = <<>>
    /\ token = <<>>
    /\ mainOk = FALSE
    /\ OtherIdle
    /\ MgrIdle

SeqSpec == SeqInit /\ [][Next]_vars

----------------------------------------------------------------------------
(* Track navigation: the hotkeys d and a (and a click in the list) call    *)
(* selectIndex while the handlers above stay available.  Two files: the    *)
(* first was tagged under another bank, the second under the active bank   *)
(* or not at all, so the bank-switch prompt can only be raised for the     *)
(* first.                                                                  *)

NavPaths == {"f1", "f2"}

\* "x;y;TagB:j;"
PromptComment == <<"x", ";", "y", ";", "T", "a", "g", "B", ":", "j", ";">>

\* "" and "v;TagB:r;"
PlainComments == { <<>>, <<"v", ";", "T", "a", "g", "B", ":", "r", ";">> }

NavInit ==
    /\ tags \in RaceVocabs
    /\ bank \in Banks
    /\ disk \in {[p \in NavPaths |-> IF p = "f1" THEN PromptComment ELSE c] :
                   c \in PlainComments}
    /\ meta = <<>>
    /\ confirmSwitchOpen = FALSE
    /\ pendingAdd = <<>>
    /\ clearConfirmOpen = FALSE
    /\ inflight = <<>>
    /\ issued = 0
    /\ pc = "nav"
    /\ selected = <<>>
    /\ enforced = <<>>
    /\ reenforced = <<>>
    /\ encoded = <<>>
    /\ decoded = <<>>
    /\ token = <<>>
    /\ mainOk = FALSE
    /\ OtherIdle
    /\ MgrIdle

\* selectIndex: loadTrackForEntry reads the metadata of the entry and
\* makes it the current track
selectIndex(p) ==
    /\ meta' = <<[path |-> p, comment |-> disk[p]]>>
    /\ UNCHANGED <<tags, bank, disk, confirmSwitchOpen, pendingAdd,
                   clearConfirmOpen, inflight, issued, pureVars, mgrVars, otherVars>>

NavNext ==
    \/ \E p \in NavPaths : selectIndex(p)
    \/ \E i \in 1..Len(tags) : toggleTag(tags[i])
    \/ \E i \in 1..Len(tags), n \in 0..MaxAmount : setAmount(tags[i], n)
    \/ onCancel
    \/ onSwitchKeepUnknowns
    \/ onSwitchRemoveUnknowns
    \/ \E i \in 1..Len(inflight) : writeCommentOk(i)
    \/ \E i \in 1..Len(inflight) : callFails(i)
    \/ \E i \in 1..Len(inflight) : logEventOk(i)

NavSpec == NavInit /\ [][NavNext]_vars

----------------------------------------------------------------------------
(* Banks: App's start-up, bank selection, the vocabulary reads they start, *)
(* TagManager's saves and the creation of a bank.  The backend keeps one   *)
(* tags file per bank; listTagBanks returns the names that have a file.    *)

WordChars == LowerAlnum \cup {"_", "-"}

\* .replace(/[^\w-]+/g, "-"): a run of other characters becomes one "-"
RECURSIVE replaceNonWord(_, _)
replaceNonWord(s, inRun) ==
    IF Len(s) = 0 THEN <<>>
    ELSE IF s[1] \in WordChars THEN <<s[1]>> \o replaceNonWord(Tail(s), FALSE)
    ELSE (IF inRun THEN <<>> ELSE <<"-">>) \o replaceNonWord(Tail(s), TRUE)

\* .replace(/^-+|-+$/g, "")
RECURSIVE stripDashes(_)
stripDashes(s) ==
    IF Len(s) = 0 THEN s
    ELSE IF s[1] = "-" THEN stripDashes(Tail(s))
    ELSE IF s[Len(s)] = "-" THEN stripDashes(SubSeq(s, 1, Len(s) - 1))
    ELSE s

lower(s) == [i \in 1..Len(s) |-> toLowerCase(s[i])]

sanitizeBank(name) ==
    LET out == stripDashes(replaceNonWord(lower(trim(name)), FALSE))
    IN  IF out = <<>> THEN Default ELSE out

\* names typed into NewBankModal: "", "A", "a", " b!" and "-"
RawBankNames == { <<>>, <<"A">>, <<"a">>, <<" ", "b", "!">>, <<"-">> }

\* the vocabularies found in the files
BankTagsA == << TagDef("vocal", <<"v">>, "optional", "", <<>>) >>

BankTagsD == << TagDef("lead", <<"l">>, "main", "", <<>>) >>

\* list_tag_banks
listTagBanks == {n \in BankNames : bankFiles[n] # <<>>}

BankInit ==
    /\ tags = <<>>
    /\ bank = Default
    /\ banks = {Default}
    /\ bankFiles \in { [n \in BankNames |->
                          IF n = Default THEN <<BankTagsD>>
                          ELSE IF n = <<"a">> THEN <<BankTagsA>>
                          ELSE f] : f \in {<<>>, << <<>> >>} }
    /\ reads = <<Default>>
    /\ disk = [p \in Paths |-> <<>>]
    /\ meta = <<>>
    /\ confirmSwitchOpen = FALSE
    /\ pendingAdd = <<>>
    /\ clearConfirmOpen = FALSE
    /\ inflight = <<>>
    /\ issued = 0
    /\ pc = "boot"
    /\ selected = <<>>
    /\ enforced = <<>>
    /\ reenforced = <<>>
    /\ encoded = <<>>
    /\ decoded = <<>>
    /\ token = <<>>
    /\ mainOk = FALSE
    /\ walk = WalkIdle
    /\ passed = <<>>
    /\ MgrIdle

trackVars == <<disk, meta, confirmSwitchOpen, pendingAdd, clearConfirmOpen,
               inflight, issued>>

pureRest == <<selected, enforced, reenforced, encoded, decoded, token, mainOk>>

\* the effect on [bank]: a change of bank starts a read of its tags file
bankEffect(old, new) == IF new # old THEN <<new>> ELSE <<>>

\* the start-up effect: the banks are listed (["default"] when the call
\* fails), the last used bank is chosen if listed, and its tags are read
startUp(listOk, last) ==
    /\ pc = "boot"
    /\ LET list == IF listOk THEN listTagBanks ELSE {Default}
           chosen == IF last \in list THEN last ELSE Default
       IN  /\ banks' = IF list # {} THEN list ELSE {Default}
           /\ bank' = chosen
           /\ reads' = reads \o <<chosen>> \o bankEffect(bank, chosen)
    /\ pc' = "banks"
    /\ UNCHANGED <<tags, bankFiles, trackVars, pureRest, mgrVars, walk, passed>>

handleSelectBank(next) ==
    /\ pc = "banks"
    /\ Len(reads) < MaxReads
    /\ bank' = next
    /\ reads' = reads \o bankEffect(bank, next)
    /\ UNCHANGED <<tags, bankFiles, banks, trackVars, pureVars, mgrVars, walk, passed>>

\* a read resolves: setTagsFile(coerceTagsFile(JSON.parse(raw)))
readResolves(i) ==
    /\ bankFiles[reads[i]] # <<>>
    /\ tags' = bankFiles[reads[i]][1]
    /\ reads' = Remove(reads, i)
    /\ UNCHANGED <<bank, bankFiles, banks, trackVars, pureVars, mgrVars, walk, passed>>

\* the setTags prop of TagManager: setTagsFile(tf) and
\* writeTagsFileBank(bank, JSON.stringify(tf))
setTagsOfBank(next) ==
    /\ pc = "banks"
    /\ next # tags
    /\ tags' = next
    /\ bankFiles' = [bankFiles EXCEPT ![bank] = <<next>>]
    /\ UNCHANGED <<bank, banks, reads, trackVars, pureVars, mgrVars, walk, passed>>

\* the lists TagManager's save and del hand to setTags
Edits ==
    { Append(tags, d) : d \in {x \in {BankTagsA[1], BankTagsD[1]} :
                                 Len(tags) < MaxBankTags /\ findIx(tags, x.id) = 0} }
    \cup { SelectSeq(tags, LAMBDA t : t.id # id) : id \in TagIds }

\* NewBankModal.tryCreate and, when it passes, finalizeCreateBank: listOk
\* and listedAfter tell whether the two calls of listTagBanks succeed
tryCreate(rawName, listOk, listedAfter) ==
    /\ pc = "banks"
    /\ LET name == sanitizeBank(rawName)
           current == IF listOk THEN listTagBanks ELSE {}
           list == IF listedAfter THEN listTagBanks \cup {name} ELSE {}
       IN  IF \E b \in banks : lower(b) = lower(name)
           THEN UNCHANGED <<bank, bankFiles, banks, reads>>
           ELSE IF \E b \in current : lower(b) = lower(name)
           THEN UNCHANGED <<bank, bankFiles, banks, reads>>
           ELSE /\ Len(reads) < MaxReads
                /\ bankFiles' = [bankFiles EXCEPT ![name] = << <<>> >>]
                /\ banks' = IF list # {} THEN list ELSE {Default}
                /\ bank' = name
                /\ reads' = reads \o bankEffect(bank, name)
    /\ UNCHANGED <<tags, trackVars, pureVars, mgrVars, walk, passed>>

BankNext ==
    \/ \E listOk \in BOOLEAN, last \in BankNames : startUp(listOk, last)
    \/ \E next \in banks : handleSelectBank(next)
    \/ \E i \in 1..Len(reads) : readResolves(i)
    \/ \E next \in Edits : setTagsOfBank(next)
    \/ \E rawName \in RawBankNames, listOk, listedAfter \in BOOLEAN :
          tryCreate(rawName, listOk, listedAfter)

BankSpec == BankInit /\ [][BankNext]_vars

----------------------------------------------------------------------------
(* The ancestor walk, one call of topoParents per step, over vocabularies  *)
(* that TagManager has edited: save sets any listed definition (the edited *)
(* one included) as parent, del leaves the parent ids of the children.     *)

WalkTags ==
    << TagDef("vocal", <<"v">>, "optional", "", <<>>),
       TagDef("lead", <<"l">>, "main", "vocal", <<>>),
       TagDef("energy", <<"e">>, "optional", "lead", <<0, 1>>) >>

WalkInit ==
    /\ tags = WalkTags
    /\ version = TAGS_SCHEMA_VERSION
    /\ raw = JSONstringify([version |-> TAGS_SCHEMA_VERSION, tags |-> WalkTags])
    /\ error = <<>>
    /\ loadError = FALSE
    /\ AppIdle
    /\ pc = "loaded"
    /\ selected = <<>>
    /\ enforced = <<>>
    /\ reenforced = <<>>
    /\ encoded = <<>>
    /\ decoded = <<>>
    /\ token = <<>>
    /\ mainOk = FALSE
    /\ OtherIdle

\* Set.add: insertion order, no second copy
setAdd(acc, x) == IF x \in Range(acc) THEN acc ELSE Append(acc, x)

\* the first call of topoParents for a selected entry
walkStart(id) ==
    /\ walk.state = "idle"
    /\ walk' = [state |-> "run", id |-> id, start |-> id, acc |-> <<>>]
    /\ UNCHANGED <<tags, appVars, pureVars, mgrVars, passed, bankVars>>

\* one call of a walk that stops at an id it has already added
walkCallGuarded ==
    /\ walk.state = "run"
    /\ LET ix == findIx(tags, walk.id) IN
       IF ix = 0 \/ tags[ix].parent = "" \/ tags[ix].parent \in Range(walk.acc)
       THEN walk' = [walk EXCEPT !.state = "returned"]
       ELSE walk' = [walk EXCEPT !.acc = setAdd(walk.acc, tags[ix].parent),
                                 !.id = tags[ix].parent]
    /\ UNCHANGED <<tags, appVars, pureVars, mgrVars, passed, bankVars>>

\* one call of topoParents(all, id, acc)
walkCall ==
    /\ walk.state = "run"
    /\ LET ix == findIx(tags, walk.id) IN
       IF ix = 0 \/ tags[ix].parent = ""
       THEN walk' = [walk EXCEPT !.state = "returned"]
       ELSE walk' = [walk EXCEPT !.acc = setAdd(walk.acc, tags[ix].parent),
                                 !.id = tags[ix].parent]
    /\ UNCHANGED <<tags, appVars, pureVars, mgrVars, passed, bankVars>>

\* the caller takes the result
walkDone ==
    /\ walk.state = "returned"
    /\ walk' = WalkIdle
    /\ UNCHANGED <<tags, appVars, pureVars, mgrVars, passed, bankVars>>

\* the form of TagManager filled from a listed definition
formOf(t) == [name |-> t.name, type |-> t.type, hasAmount |-> t.amountRange # <<>>]

WalkNext ==
    \/ \E id \in TagIds \cup {"gone"} : walkStart(id)
    \/ walkCall
    \/ walkDone
    \/ \E i \in 1..Len(tags), parent \in TagIds \cup {""} :
          walk.state = "idle" /\ save(formOf(tags[i]), <<tags[i].id>>, parent)
    \/ \E id \in TagIds : walk.state = "idle" /\ del(id)

WalkSpec == WalkInit /\ [][WalkNext]_vars

\* the walk is a synchronous computation: a call that can run does run
WalkLive == WalkSpec /\ WF_vars(walkCall)

----------------------------------------------------------------------------
(* Claims about the comment writes, checked under Spec (C17: under         *)
(* RaceSpec).  A write is read off the call in flight: str is the comment  *)
(* handed to writeComment, snap.comment the comment before the edit.       *)

Writes == Range(inflight)

Persists == {w \in Writes : w.kind = "persist"}

\* tok decodes to the definition t under the vocabulary all
DecodesTo(tok, t, all) == tokenToTagMatch(tok, all).tag = <<t>>

RECURSIVE IsSubsequence(_, _)
IsSubsequence(u, w) ==
    IF Len(u) = 0 THEN TRUE
    ELSE IF Len(w) = 0 THEN FALSE
    ELSE IF u[1] = w[1] THEN IsSubsequence(Tail(u), Tail(w))
    ELSE IsSubsequence(u, Tail(w))

\* C5: every written comment has a token for every mandatory definition
\* of the active vocabulary.
MandatoryInEveryWrite ==
    \A w \in Writes :
        \A i \in 1..Len(tags) :
            tags[i].type = "mandatory" =>
                \E k \in 1..Len(splitTokens(w.str)) :
                    DecodesTo(splitTokens(w.str)[k], tags[i], tags)

\* C6: when the active vocabulary has a main definition, every written
\* comment decodes to a selection with a main definition.
MainInEveryWrite ==
    \A w \in Writes :
        (\E i \in 1..Len(tags) : tags[i].type = "main") =>
            \E k \in 1..Len(parseCommentToTags(w.str, tags)) :
                parseCommentToTags(w.str, tags)[k].tag.type = "main"

\* C7: no comment written by persistTagsWithBankDecision has two tokens
\* that decode to the same definition id.
NoDuplicateTokens ==
    \A w \in Persists : NoDupIds(parseCommentToTags(w.str, tags))

\* C9: under keepUnknowns the unknown tokens of the pre-edit comment are
\* in the written comment, verbatim and in their order.
UnknownsKept ==
    \A w \in Persists :
        w.keep => IsSubsequence(unknownTokensFromComment(w.snap.comment, tags),
                                splitTokens(w.str))

\* a keepUnknowns write over a comment with two different unknown tokens
\* next to tokens of the vocabulary
UnknownsKeptCase ==
    \E w \in Persists :
        /\ w.keep
        /\ w.final # <<>>
        /\ LET u == unknownTokensFromComment(w.snap.comment, tags)
           IN  Len(u) >= 2 /\ u[1] # u[2]

\* C10: a comment written by persistTagsWithBankDecision ends with ";",
\* has exactly one bank token, the one of the active bank, and has the
\* token of every selected definition.
BankTokenWritten ==
    \A w \in Persists :
        LET toks == splitTokens(w.str)
            bankToks == SelectSeq(toks, LAMBDA t : startsWith(t, TagBPrefix))
        IN  /\ endsWith(w.str, <<";">>)
            /\ bankToks = <<TagBPrefix \o w.bank>>
            /\ \A i \in 1..Len(w.final) : tokenOf(w.final[i]) \in Range(toks)

\* C11: under discardUnknowns the written comment has no token that was
\* unknown to the active vocabulary in the pre-edit comment, and its bank
\* token names the active bank.
UnknownsDiscarded ==
    \A w \in Persists :
        ~w.keep =>
            /\ Range(unknownTokensFromComment(w.snap.comment, tags))
                   \cap Range(splitTokens(w.str)) = {}
            /\ SelectSeq(splitTokens(w.str), LAMBDA t : startsWith(t, TagBPrefix))
                   = <<TagBPrefix \o bank>>

\* the user attempts to add a tag to a file of another bank
AddAttempt ==
    /\ meta # <<>>
    /\ bankDiffAndHasTags
    /\ \/ \E i \in 1..Len(tags) :
             tags[i].id \notin Ids(tokenList) /\ toggleTag(tags[i])
       \/ \E i \in 1..Len(tags), n \in 0..MaxAmount :
             tags[i].id \notin Ids(tokenList) /\ setAmount(tags[i], n)

\* C12: an attempt to add a tag to a file whose comment has the bank token
\* of another bank and another token issues no write and opens the prompt;
\* as long as the prompt stays open (the user has not chosen) no write is
\* issued; Cancel issues no write and leaves the file's comment and the
\* in-memory comment as they are.
PromptBeforeWrite ==
    [][/\ AddAttempt =>
            /\ UNCHANGED <<disk, meta, inflight, issued>>
            /\ confirmSwitchOpen' /\ pendingAdd' # <<>>
       /\ (confirmSwitchOpen /\ pendingAdd # <<>> /\ confirmSwitchOpen')
            => issued' = issued
       /\ onCancel =>
            /\ UNCHANGED <<disk, meta, inflight, issued>>
            /\ ~confirmSwitchOpen']_vars

\* the enforced selection of chosen has no main tag although the active
\* vocabulary has one
MissingMainTag(chosen) ==
    ~ensureAtLeastOneMain(enforceParentAndMandatory(dedupeById(chosen), tags), tags)

\* the list toggleTag hands to persistTagsWithBankDecision
toggledList(t) ==
    IF t.id \in Ids(tokenList)
    THEN SelectSeq(tokenList, LAMBDA x : x.tag.id # t.id)
    ELSE Append(tokenList, implied(t))

\* a handler calls persistTagsWithBankDecision with a list whose enforced
\* selection has no main tag
MissingMainCall ==
    /\ meta # <<>>
    /\ \/ \E i \in 1..Len(tags) :
             /\ toggleTag(tags[i])
             /\ ~(tags[i].type = "mandatory" /\ tags[i].id \in Ids(tokenList))
             /\ ~(tags[i].id \notin Ids(tokenList) /\ bankDiffAndHasTags)
             /\ MissingMainTag(toggledList(tags[i]))
       \/ \E i \in 1..Len(tags), n \in 0..MaxAmount :
             /\ setAmount(tags[i], n)
             /\ ~(tags[i].id \notin Ids(tokenList) /\ bankDiffAndHasTags)
             /\ MissingMainTag(IF tags[i].id \in Ids(tokenList) THEN tokenList
                               ELSE Append(tokenList, implied(tags[i])))
       \/ (onSwitchKeepUnknowns \/ onSwitchRemoveUnknowns) /\ MissingMainTag(pendingList)

\* C13: when the enforced selection has no main tag and the active
\* vocabulary has one, persistTagsWithBankDecision issues no writeComment
\* (no write is ever in flight for such a list) and the call leaves the
\* file's comment and the in-memory comment unchanged.
MissingMainNoWrite ==
    /\ [](\A w \in Persists : ~MissingMainTag(w.chosen))
    /\ [][MissingMainCall => UNCHANGED <<disk, meta, inflight, issued>>]_vars

\* removing the only main tag of the current file would be rejected: the
\* file has a main tag, nothing was written
MissingMainCase ==
    /\ meta # <<>> /\ issued = 0 /\ inflight = <<>>
    /\ disk[meta[1].path] = meta[1].comment
    /\ \E i \in 1..Len(tags) :
          /\ tags[i].type = "main" /\ tags[i].id \in Ids(tokenList)
          /\ MissingMainTag(toggledList(tags[i]))

\* toggleTag is called for a mandatory tag of the current file's selection
MandatoryRemoval ==
    \E i \in 1..Len(tags) :
        /\ tags[i].type = "mandatory" /\ tags[i].id \in Ids(tokenList)
        /\ toggleTag(tags[i])

\* C14: toggleTag on a mandatory tag that is in the current file's
\* selection issues no writeComment and changes neither the comment nor
\* the pending add: no write is ever in flight for a list that lacks a
\* mandatory tag the pre-edit comment had.
MandatoryRemovalRejected ==
    /\ [](\A w \in Persists :
            \A e \in Range(parseCommentToTags(w.snap.comment, tags)) :
                e.tag.type = "mandatory" => e.tag.id \in Ids(w.chosen))
    /\ [][MandatoryRemoval =>
            UNCHANGED <<disk, meta, inflight, issued, pendingAdd,
                        confirmSwitchOpen>>]_vars

\* the current file has a mandatory tag and an optional one; nothing was
\* written: a toggle of the mandatory tag has had no effect
MandatoryRemovalCase ==
    /\ meta # <<>> /\ issued = 0 /\ inflight = <<>>
    /\ disk[meta[1].path] = meta[1].comment
    /\ \E e \in Range(tokenList) : e.tag.type = "mandatory"
    /\ \E e \in Range(tokenList) : e.tag.type # "mandatory"

\* C15: the in-memory comment of a loaded track changes only when a write
\* whose writeComment has resolved is completed, and then to the comment
\* that was written; when writeComment fails, the in-memory comment and
\* the file are unchanged and no further write is issued by the failure.
MetaAfterWrite ==
    /\ [][(meta # <<>> /\ meta' # meta) =>
            \E i \in 1..Len(inflight) :
                /\ inflight[i].at = "logEvent"
                /\ meta' = <<[inflight[i].snap EXCEPT !.comment = inflight[i].str]>>
                /\ inflight' = Remove(inflight, i)]_vars
    /\ [][(\E i \in 1..Len(inflight) :
                inflight[i].at = "writeComment" /\ callFails(i)) =>
            UNCHANGED <<meta, disk, issued>>]_vars

\* a write was issued for a comment that no write produces (it does not
\* end with ";"), writeComment failed, and the comment in memory and in
\* the file is still that comment
WriteFailedCase ==
    /\ issued = 1 /\ inflight = <<>>
    /\ meta # <<>> /\ meta[1].comment # <<>>
    /\ ~endsWith(meta[1].comment, <<";">>)
    /\ disk[meta[1].path] = meta[1].comment

\* C16: in the selection parseCommentToTags returns for the current file's
\* comment, and in the enforced selection made from it, an entry has an
\* amount exactly when its definition has an amount range.
AmountIffRange ==
    \A e \in Range(tokenList) \cup Range(enforceParentAndMandatory(tokenList, tags)) :
        (e.amount # NoAmount) <=> (e.tag.amountRange # <<>>)

\* C17: at most one writeComment call per file is in flight: none is
\* issued for a file while an earlier one for it has not resolved.
WritesSerialized ==
    \A i, j \in 1..Len(inflight) :
        (/\ inflight[i].at = "writeComment" /\ inflight[j].at = "writeComment"
         /\ inflight[i].snap.path = inflight[j].snap.path) => i = j

\* the comment re-serialized from its decoded and enforced selection
normalized(comment) ==
    stringifyTagsForComment(
        enforceParentAndMandatory(parseCommentToTags(comment, tags), tags))

\* C18: loading a track issues a write of the normalized comment exactly
\* when the normalized comment differs from the comment read.
NormalizedOnLoad ==
    [][(meta = <<>> /\ meta' # <<>>) =>
          LET read == meta'[1].comment IN
          (normalized(read) # read) <=>
              /\ issued' = issued + 1
              /\ Len(inflight') = Len(inflight) + 1
              /\ inflight'[Len(inflight')].snap.path = meta'[1].path
              /\ inflight'[Len(inflight')].str = normalized(read)]_vars

\* C28: once a persist or clear-tags call has completed, with or without
\* a failure, the in-memory comment of the current track is the comment of
\* the file as last written.
MemoryMatchesFile ==
    (meta # <<>> /\ inflight = <<>>) => meta[1].comment = disk[meta[1].path]

----------------------------------------------------------------------------
(* Claims about the vocabulary, checked under VocabSpec *)

\* C19: a load of the vocabulary never fails: a text that is malformed, is
\* not an object or has no array 'tags' gives the empty vocabulary with
\* the current schema version; otherwise the tags are kept and a version
\* that is absent or not a number becomes the current schema version.
VocabularyLoadNeverFails ==
    [][(pc = "vocab" /\ pc' = "loaded") =>
          /\ ~loadError'
          /\ IF raw.kind # "object" \/ raw.tagsK # "array"
             THEN tags' = <<>> /\ version' = TAGS_SCHEMA_VERSION
             ELSE /\ tags' = raw.tagsV
                  /\ version' = IF raw.verK = "number" THEN raw.verV
                                ELSE TAGS_SCHEMA_VERSION]_vars

\* the name is empty, has a whitespace character or has a ";"
InvalidName(name) ==
    \/ name = <<>>
    \/ \E i \in 1..Len(name) : name[i] \in {" ", "\t", ";"}

\* C20: saving a definition whose name is empty, has whitespace or has a
\* ";" sets the validation error and leaves the vocabulary and its file
\* unchanged; any other name is accepted: the definition is in the
\* vocabulary and in the file afterwards.
InvalidNameRejected ==
    [][\A form \in Forms, editing \in {<<>>} \cup {<<id>> : id \in TagIds} :
          save(form, editing, "") =>
              IF InvalidName(form.name)
              THEN error' # <<>> /\ UNCHANGED <<tags, raw, version>>
              ELSE /\ error' = <<>>
                   /\ \E i \in 1..Len(tags') : tags'[i].name = form.name
                   /\ raw' = JSONstringify([version |-> version, tags |-> tags'])]_vars

\* the name "a_b-2" was accepted and a later save with a name that has
\* whitespace was rejected
InvalidNameCase ==
    /\ pc = "loaded"
    /\ error = <<"No spaces allowed in tag names (use CamelCase or underscores)">>
    /\ \E i \in 1..Len(tags) :
          tags[i].name = <<"a", "_", "b", "-", "2">> /\ tags[i].id = "a_b_2"
    /\ raw = JSONstringify([version |-> version, tags |-> tags])

----------------------------------------------------------------------------
(* Claims about overlapping edits, checked under RaceSpec *)

\* the edit of a call: the (id, amount) pairs it adds to the selection
\* decoded from the comment it started from, and the ids it removes
EditAdds(r) == AsSet(r.chosen) \ AsSet(parseCommentToTags(r.snap.comment, tags))

EditRemoves(r) == Ids(parseCommentToTags(r.snap.comment, tags)) \ Ids(r.chosen)

EditIds(r) == {p[1] : p \in EditAdds(r)} \cup EditRemoves(r)

\* C25: when two edits of different tags of the same file have been issued
\* one after the other and both writes have succeeded, the persisted
\* comment reflects both edits.
NoLostUpdate ==
    \A i, j \in 1..Len(inflight) :
        (/\ i < j
         /\ inflight[i].kind = "persist" /\ inflight[j].kind = "persist"
         /\ ~inflight[i].afterwards /\ ~inflight[j].afterwards
         /\ inflight[i].at = "logEvent" /\ inflight[j].at = "logEvent"
         /\ inflight[i].snap.path = inflight[j].snap.path
         /\ EditIds(inflight[i]) \cap EditIds(inflight[j]) = {})
        => LET d == parseCommentToTags(disk[inflight[i].snap.path], tags) IN
           \A k \in {i, j} :
               /\ EditAdds(inflight[k]) \subseteq AsSet(d)
               /\ EditRemoves(inflight[k]) \cap Ids(d) = {}

----------------------------------------------------------------------------
(* Claims about writes that follow one another, checked under SeqSpec *)

Count(tok, comment) ==
    Cardinality({k \in 1..Len(splitTokens(comment)) : splitTokens(comment)[k] = tok})

\* the comment the call started from was written by an earlier persist:
\* no file of SeqSpec carries the token of the active bank before that
WrittenBefore(r) == \E k \in 1..Len(splitTokens(r.snap.comment)) :
                        splitTokens(r.snap.comment)[k] = TagBPrefix \o r.bank

\* C27: a keepUnknowns write that follows an earlier write to the file does
\* not raise the number of occurrences of any token of the comment, and
\* writes the identical comment when the selection is unchanged.
KeepWritesDoNotGrow ==
    \A i \in 1..Len(inflight) :
        LET r == inflight[i] IN
        (r.kind = "persist" /\ r.keep /\ WrittenBefore(r)) =>
            /\ \A tok \in Range(splitTokens(r.snap.comment)) :
                   Count(tok, r.str) <= Count(tok, r.snap.comment)
            /\ AsSet(r.chosen) = AsSet(parseCommentToTags(r.snap.comment, tags))
                   => r.str = r.snap.comment

----------------------------------------------------------------------------
(* Claims about the bank-switch prompt under navigation, checked under     *)
(* NavSpec                                                                 *)

\* the prompt is raised only while the first file is the current track
PromptRaisedForFirstFile ==
    [][(~confirmSwitchOpen /\ confirmSwitchOpen') =>
           (meta # <<>> /\ meta[1].path = "f1")]_vars

\* C26: the write of a confirmed pending add goes to the file for which
\* the prompt was raised and is computed from that file's comment, whatever
\* navigation and hotkeys happened while the prompt was open.
PendingAddOnPromptedFile ==
    \A i \in 1..Len(inflight) :
        inflight[i].afterwards =>
            inflight[i].snap = [path |-> "f1", comment |-> PromptComment]

----------------------------------------------------------------------------
(* Claims about the banks, checked under BankSpec *)

\* C29: once every vocabulary read started by start-up and by bank
\* selections has resolved, the in-memory vocabulary is the persisted
\* vocabulary of the active bank, whatever the order in which they resolve.
VocabularyOfActiveBank ==
    (pc = "banks" /\ reads = <<>>) => bankFiles[bank] = <<tags>>

\* the sanitized name is the name of a bank that has a file, compared
\* without regard to case
BankExists(name) == \E n \in BankNames : bankFiles[n] # <<>> /\ lower(n) = lower(name)

\* C30: creating a bank never changes the tags file of a bank that exists,
\* also when the listing of the banks fails, and leaves the active bank
\* and the bank list alone when the sanitized name exists.
CreateNeverOverwrites ==
    [][\A rawName \in RawBankNames, listOk, listedAfter \in BOOLEAN :
          tryCreate(rawName, listOk, listedAfter) =>
              /\ \A n \in BankNames :
                     bankFiles[n] # <<>> => bankFiles'[n] = bankFiles[n]
              /\ BankExists(sanitizeBank(rawName)) => UNCHANGED <<bank, banks>>]_vars

----------------------------------------------------------------------------
(* Claims about the ancestor walk, checked under WalkLive *)

\* the parent chain from id reaches, within n links, a definition without
\* parent or an id that is not in V
RECURSIVE ChainEnds(_, _, _)
ChainEnds(V, id, n) ==
    LET ix == findIx(V, id) IN
    \/ ix = 0
    \/ V[ix].parent = ""
    \/ n > 0 /\ ChainEnds(V, V[ix].parent, n - 1)

WalkEnds == ChainEnds(tags, walk.start, Len(tags))

\* C23: the ancestor walk returns if and only if the parent chain from its
\* start reaches a definition without parent or a parent id that is not in
\* the vocabulary: on a cycle (a definition that is its own parent
\* included) it never returns, and for a dangling parent id it returns with
\* no entry added for that id.
WalkTerminatesIffChainEnds ==
    /\ [](walk.state = "returned" => WalkEnds)
    /\ [](walk.state = "returned" =>
             \A e \in Range(parentEntries(walk.acc, tags)) : e.tag.id \in TagIds)
    /\ ((walk.state = "run" /\ WalkEnds) ~> (walk.state = "returned"))

\* the walk has gone once around a definition that save made its own
\* parent, and is still running
SelfParentWalkCase ==
    /\ walk.state = "run"
    /\ walk.id = walk.start
    /\ walk.id \in Range(walk.acc)
    /\ \E i \in 1..Len(tags) : tags[i].id = walk.id /\ tags[i].parent = walk.id

====
